---- MODULE Spec2Model ----
(***************************************************************************)
(* Model of the portfolio core of charts-panel:                            *)
(*   - PortfolioOptimizer (src/unnamed/part_000): gradientDescentOptimiza- *)
(*     tion, calculateGradients, calculateObjectiveFunction,               *)
(*     isValidWeightAllocation, isMetricImprovement, normalizeWeights;     *)
(*   - the standalone functions of src/js/portfolio-metrics.js.            *)
(*                                                                         *)
(* Number representation.  JavaScript numbers are modelled in fixed point: *)
(*   - a weight is an integer number of tenths of a percent (100% = 1000), *)
(*     so stepSize 0.1 is 1 and toFixed(1) is rounding to an integer;      *)
(*   - a score (objective value) is an integer number of thousandths;      *)
(*   - a periodic return is an integer number of percent.                  *)
(* Arithmetic is exact: IEEE-754 rounding error (of the order 1e-14 on the *)
(* quantities below) is not modelled.                                      *)
(***************************************************************************)
EXTENDS Integers, Sequences, FiniteSets, TLC

VARIABLES
  pc,            \* "idle" | "loop" | "exit" | "done" | "normalized"
  opt,           \* the constructed optimizer: [stepSize, maxStagnation]
  call,          \* arguments of the running call: [objective, turnoverLimit, cb]
  heap,          \* the weight-map objects: [caller, current, best, final]
  currentRef,    \* the object the local currentWeights refers to
  resultRef,     \* the object handed back to the caller ("none" before)
  snapshot,      \* the caller's weight map as it was when the call was made
  memo,          \* the callback's answers so far (it is deterministic)
  initialMetric,
  bestMetric,
  totalChanges,
  iteration,
  stagnationCount,
  result,        \* the returned OptimizationResult
  runNo,         \* 1 for a first call, 2 for a re-run on the previous output
  prevFinal,     \* finalMetric of the previous run (meaningful when runNo = 2)
  threw,         \* some evaluation of the callback threw during this run
  last           \* what the last loop pass did

vars == <<pc, opt, call, heap, currentRef, resultRef, snapshot, memo,
          initialMetric, bestMetric, totalChanges, iteration, stagnationCount,
          result, runNo, prevFinal, threw, last>>

-----------------------------------------------------------------------------
(* Bounds of the model *)

\* largest turnoverLimit, in tenths of a percent
MaxTurnover == 3
\* largest metric value the table callback returns, in thousandths
MaxMetric == 4
\* longest return series given to calculateCumulativeReturns
MaxLen == 4

(* Program constants *)

\* 100 percent, in tenths of a percent
Hundred == 1000
\* the penalty 999, in thousandths
Penalty == 999000
\* default annual risk-free rate 0.02, in units of 1e-5 (weight tenth x percent)
RiskFree == 2000

-----------------------------------------------------------------------------
(* Arithmetic helpers *)

Abs(x) == IF x < 0 THEN -x ELSE x

\* the sum of the elements of s, by halves
RECURSIVE SumSeq(_)
SumSeq(s) ==
  IF Len(s) = 0 THEN 0
  ELSE IF Len(s) = 1 THEN s[1]
  ELSE SumSeq(SubSeq(s, 1, Len(s) \div 2))
       + SumSeq(SubSeq(s, Len(s) \div 2 + 1, Len(s)))

\* Number.prototype.toFixed on the quotient num/den (den > 0), to the model's
\* unit: the nearest integer, a tie going away from zero.
ToFixedDiv(num, den) ==
  IF num >= 0 THEN (2 * num + den) \div (2 * den)
  ELSE -((2 * (-num) + den) \div (2 * den))

RECURSIVE IsqrtIn(_, _, _)
IsqrtIn(x, lo, hi) ==
  IF lo >= hi THEN lo
  ELSE LET mid == (lo + hi + 1) \div 2
       IN IF mid * mid <= x THEN IsqrtIn(x, mid, hi) ELSE IsqrtIn(x, lo, mid - 1)

\* Math.sqrt on a perfect square (floor of the root otherwise)
Sqrt(x) == IsqrtIn(x, 0, 46340)

-----------------------------------------------------------------------------
(* Weight-map objects.  An object has its keys 1..n in insertion order, a   *)
(* number per key (w), the set of keys whose value is not a number (nan:    *)
(* undefined, null, a non-numeric string) and the set of keys whose value   *)
(* is a string holding the number (str: what toFixed returns).              *)

Obj(w, nan, str) == [w |-> w, nan |-> nan, str |-> str]
\* a map of numbers
NumObj(w) == Obj(w, {}, {})
NoObj == NumObj(<<>>)
Keys(o) == DOMAIN o.w

\* parseFloat(x) || 0
ParseOrZero(o, a) == IF a \in o.nan THEN 0 ELSE o.w[a]

\* currentWeights[asset] = parseFloat(currentWeights[asset]) || 0, for every key
ParseEntries(o) == NumObj([a \in Keys(o) |-> ParseOrZero(o, a)])

-----------------------------------------------------------------------------
(* portfolio-metrics.js: the functions a caller composes into the          *)
(* evaluation callback.  A series element is <<v>> (a number) or <<>>      *)
(* (null / undefined).                                                     *)

\* detectFrequency without usable dates: the length heuristic
PeriodsByLength(n) ==
  IF n > 1000 THEN 252
  ELSE IF n > 200 THEN 52
  ELSE IF n > 50 THEN 12
  ELSE IF n > 10 THEN 4
  ELSE 1

\* detectFrequency(returns, dates).  The returns argument is known by its
\* length only (null: the argument is null / undefined); dates is null or an
\* array whose elements are <<t>>, a date string new Date() parses, t its time
\* in half days, or <<>>, a string it does not parse (an Invalid Date, whose
\* time is NaN; new Date() does not throw on it).
NoReturns == [null |-> TRUE, length |-> 0]
ReturnsOfLength(n) == [null |-> FALSE, length |-> n]
NoDates == [null |-> TRUE, v |-> <<>>]
Dates(v) == [null |-> FALSE, v |-> v]

FrequencyInfo(periods, name) ==
  [raised |-> FALSE, periods |-> periods, name |-> name,
   factorSquared |-> periods]
\* the TypeError of returns.length on null / undefined
RaisedTypeError ==
  [raised |-> TRUE, periods |-> 0, name |-> "", factorSquared |-> 0]

\* a day gap that keeps the sign of date2 - date1
daysDiffSigned(date1, date2) ==
  IF date1 = <<>> \/ date2 = <<>> THEN <<>> ELSE <<date2[1] - date1[1]>>

\* Math.abs((date2 - date1) / (1000 * 60 * 60 * 24)) in half days; <<>> is NaN
daysDiff(date1, date2) ==
  IF date1 = <<>> \/ date2 = <<>> THEN <<>> ELSE <<Abs(date2[1] - date1[1])>>

\* the comparisons of lines 23-27; every comparison with NaN is false
FrequencyByGap(gap) ==
  IF gap /= <<>> /\ gap[1] <= 3 THEN FrequencyInfo(252, "daily")
  ELSE IF gap /= <<>> /\ gap[1] <= 16 THEN FrequencyInfo(52, "weekly")
  ELSE IF gap /= <<>> /\ gap[1] <= 70 THEN FrequencyInfo(12, "monthly")
  ELSE IF gap /= <<>> /\ gap[1] <= 200 THEN FrequencyInfo(4, "quarterly")
  ELSE FrequencyInfo(1, "annual")

FrequencyByLength(dataLength) ==
  IF dataLength > 1000 THEN FrequencyInfo(252, "daily")
  ELSE IF dataLength > 200 THEN FrequencyInfo(52, "weekly")
  ELSE IF dataLength > 50 THEN FrequencyInfo(12, "monthly")
  ELSE IF dataLength > 10 THEN FrequencyInfo(4, "quarterly")
  ELSE FrequencyInfo(1, "annual")

detectFrequency(returns, dates) ==
  IF returns.null THEN RaisedTypeError
  ELSE IF ~dates.null /\ Len(dates.v) >= 2
  THEN FrequencyByGap(daysDiff(dates.v[1], dates.v[2]))
  ELSE FrequencyByLength(returns.length)

\* calculateMetricsForReturns(returns, riskFreeRate, dates), lines 49-56 and
\* 114-123: the fields of the result the detected frequency decides (empty:
\* the all-zero record of a null or empty series, which has no frequency)
calculateMetricsForReturns(returns, dates) ==
  IF returns.null \/ returns.length = 0
  THEN [empty |-> TRUE, frequency |-> "undefined", periodsPerYear |-> 0]
  ELSE LET frequency == detectFrequency(returns, dates)
       IN [empty |-> FALSE, frequency |-> frequency.name,
           periodsPerYear |-> frequency.periods]

\* calculatePortfolioReturns: w in tenths of a percent, returns in percent,
\* the result in units of 1e-3 percent (= 1e-5 as a decimal return)
RECURSIVE WeightedSum(_, _, _, _)
WeightedSum(w, assetReturns, index, active) ==
  IF active = {} THEN 0
  ELSE LET a == CHOOSE x \in active : TRUE
           r == IF index \in DOMAIN assetReturns[a]
                THEN assetReturns[a][index] ELSE <<>>
       IN (IF r = <<>> THEN 0 ELSE w[a] * r[1])
          + WeightedSum(w, assetReturns, index, active \ {a})

\* an aggregator without the early return on a total weight of 0
calculatePortfolioReturnsNoZeroCheck(w, assetReturns, indices) ==
  LET activeAssets == {a \in DOMAIN w : w[a] > 0 /\ a \in DOMAIN assetReturns}
  IN IF activeAssets = {}
     THEN [i \in DOMAIN indices |-> 0]
     ELSE [i \in DOMAIN indices |->
             WeightedSum(w, assetReturns, indices[i], activeAssets)]

calculatePortfolioReturns(w, assetReturns, indices) ==
  LET totalWeight == SumSeq(w)
      activeAssets == {a \in DOMAIN w : w[a] > 0 /\ a \in DOMAIN assetReturns}
  IN IF totalWeight = 0 \/ activeAssets = {}
     THEN [i \in DOMAIN indices |-> 0]
     ELSE [i \in DOMAIN indices |->
             WeightedSum(w, assetReturns, indices[i], activeAssets)]

\* backupCalculatePortfolioReturns, the function the component embedded
\* before the library: the assets of positive weight whose value at the index
\* is not null are summed and the sum is scaled by 100 / totalValidWeight;
\* an element is the quotient num / den, or "NaN" when an index outside a
\* series (undefined, which !== null lets through) enters the sum
ValuedAt(w, assetReturns, index) ==
  {a \in DOMAIN w : /\ w[a] > 0
                    /\ a \in DOMAIN assetReturns
                    /\ (index \in DOMAIN assetReturns[a] =>
                          assetReturns[a][index] /= <<>>)}

backupCalculatePortfolioReturns(indices, w, assetReturns) ==
  IF SumSeq(w) = 0
  THEN [i \in DOMAIN indices |-> [num |-> 0, den |-> 1]]
  ELSE [i \in DOMAIN indices |->
          LET valued == ValuedAt(w, assetReturns, indices[i])
              totalValidWeight == SumSeq([a \in DOMAIN w |->
                                           IF a \in valued THEN w[a] ELSE 0])
              portfolioReturn == WeightedSum(w, assetReturns, indices[i], valued)
          IN IF \E a \in valued : indices[i] \notin DOMAIN assetReturns[a]
             THEN "NaN"
             ELSE IF totalValidWeight > 0 /\ totalValidWeight /= Hundred
             THEN [num |-> portfolioReturn * Hundred, den |-> totalValidWeight]
             ELSE [num |-> portfolioReturn, den |-> 1]]

\* calculateCumulativeReturns.  A series argument is null / undefined or an
\* array; a cumulative return is the exact quotient num / den in percent
\* (den > 0, in lowest terms).
NoSeries == [null |-> TRUE, v |-> <<>>]
Series(v) == [null |-> FALSE, v |-> v]

RECURSIVE GCD(_, _)
GCD(a, b) == IF b = 0 THEN a ELSE GCD(b, a % b)
Rat(num, den) ==
  LET g == GCD(Abs(num), den) IN [num |-> num \div g, den |-> den \div g]

\* a loop body that chains with the return of the current period
CumulativeStepCurrent(cumulative, returns, i) ==
  Rat((100 * cumulative.den + cumulative.num) * (100 + returns[i])
        - 10000 * cumulative.den,
      100 * cumulative.den)

\* cumulative = (1 + cumulative / 100) * (1 + returns[i-1] / 100) * 100 - 100
\* (the code's i is i - 1 here)
CumulativeStep(cumulative, returns, i) ==
  Rat((100 * cumulative.den + cumulative.num) * (100 + returns[i - 1])
        - 10000 * cumulative.den,
      100 * cumulative.den)

RECURSIVE CumulativeLoop(_, _, _, _)
CumulativeLoop(returns, i, cumulative, pushed) ==
  IF i > Len(returns) THEN pushed
  ELSE IF i = 1
  THEN CumulativeLoop(returns, 2, cumulative, Append(pushed, Rat(0, 1)))
  ELSE LET c == CumulativeStep(cumulative, returns, i)
       IN CumulativeLoop(returns, i + 1, c, Append(pushed, c))

\* a version whose loop starts at the second period and pushes nothing for
\* the first
calculateCumulativeReturnsNoFirst(returns) ==
  IF returns.null \/ Len(returns.v) = 0 THEN <<>>
  ELSE CumulativeLoop(returns.v, 2, Rat(0, 1), <<>>)

calculateCumulativeReturns(returns) ==
  IF returns.null \/ Len(returns.v) = 0 THEN <<>>
  ELSE CumulativeLoop(returns.v, 1, Rat(0, 1), <<>>)

\* a quotient num/den (den > 0) as a fixed-point number: the nearest integer
\* away from zero, so that it is 0 exactly when the quotient is 0
FixedPoint(num, den) ==
  IF num >= 0 THEN (num + den - 1) \div den ELSE -((-num + den - 1) \div den)

\* calculateMetricsForReturns(returns).sharpe with the default risk-free rate
\* and no dates, in thousandths.  With S the sum of the returns and n their
\* number: meanExcess = M / (n * ppy), M = ppy * S - n * RiskFree;
\* stdev = R / n, R = sqrt(sum((n*r - S)^2) / (n - 1));
\* sharpe = meanExcess * ppy / (stdev * sqrt(ppy)) = M / (R * sqrt(ppy)).
SharpeOfReturns(returns) ==
  LET n == Len(returns)
      ppy == PeriodsByLength(n)
      S == SumSeq(returns)
      M == ppy * S - n * RiskFree
      Dev2 == SumSeq([i \in 1..n |-> (n * returns[i] - S) * (n * returns[i] - S)])
      R == IF n > 1 THEN Sqrt(Dev2 \div (n - 1)) ELSE 0
  IN IF n = 0 \/ R = 0 THEN 0 ELSE FixedPoint(1000 * M, R * Sqrt(ppy))

-----------------------------------------------------------------------------
(* The statistics of calculateMetricsForReturns and                        *)
(* calculateAdditionalMetrics on a series of returns in whole percent, with *)
(* the default risk-free rate and no dates.  A metric value is NaN or a    *)
(* number held exactly: num / den, or, for a metric that is a square root, *)
(* the root of |num| / den with the sign of num.                           *)

Sgn(x) == IF x > 0 THEN 1 ELSE IF x < 0 THEN -1 ELSE 0

NaN == [nan |-> TRUE, root |-> FALSE, num |-> 0, den |-> 1]
Number(num, den) ==
  LET q == Rat(num, den)
  IN [nan |-> FALSE, root |-> FALSE, num |-> q.num, den |-> q.den]
SignedRoot(sign, num, den) ==
  LET q == Rat(num, den)
  IN [nan |-> FALSE, root |-> TRUE, num |-> sign * q.num, den |-> q.den]
Zero == Number(0, 1)

\* the annual risk-free rate 0.02 in percent
RiskFreePercent == RiskFree \div Hundred

\* [...monthlyReturns].sort((a, b) => a - b)
\* the sorted copy holds at place i the value x with fewer than i elements
\* below it and at least i elements not above it
SortAscending(s) ==
  LET values == {s[j] : j \in DOMAIN s}
      below == [x \in values |-> Cardinality({j \in DOMAIN s : s[j] < x})]
      notAbove == [x \in values |-> Cardinality({j \in DOMAIN s : s[j] <= x})]
  IN [i \in 1..Len(s) |->
        CHOOSE x \in values : below[x] < i /\ i <= notAbove[x]]

\* n x (ret - meanReturn), in percent, for every element
Deviations(returns) ==
  [i \in DOMAIN returns |-> Len(returns) * returns[i] - SumSeq(returns)]

\* the deviations divided by their common divisor: skewness and kurtosis are
\* quotients of moments of the same degree and do not change with the scale
RECURSIVE GCDOfAll(_)
GCDOfAll(d) ==
  IF Len(d) = 0 THEN 0
  ELSE IF Len(d) = 1 THEN Abs(d[1])
  ELSE GCD(GCDOfAll(SubSeq(d, 1, Len(d) \div 2)),
           GCDOfAll(SubSeq(d, Len(d) \div 2 + 1, Len(d))))
ScaledDeviations(returns) ==
  LET d == Deviations(returns)
      g == GCDOfAll(d)
  IN IF g = 0 THEN d ELSE [i \in DOMAIN d |-> d[i] \div g]

\* const volatility = Math.sqrt(variance) * volatilityFactor * 100, in percent;
\* with one return the variance is 0 / 0
volatility(returns) ==
  LET n == Len(returns)
      d == Deviations(returns)
      Dev2 == SumSeq([i \in DOMAIN d |-> d[i] * d[i]])
  IN IF n = 1 THEN NaN
     ELSE SignedRoot(1, Dev2 * PeriodsByLength(n), n * n * (n - 1))

\* const sharpe = returnsStdDev > 0 ? (meanExcessReturn * periodsPerYear) /
\* (returnsStdDev * volatilityFactor) : 0; NaN > 0 is false
sharpe(returns) ==
  LET n == Len(returns)
      ppy == PeriodsByLength(n)
      d == Deviations(returns)
      Dev2 == SumSeq([i \in DOMAIN d |-> d[i] * d[i]])
      M == ppy * SumSeq(returns) - RiskFreePercent * n
  IN IF n = 1 \/ Dev2 = 0 THEN Zero
     ELSE SignedRoot(Sgn(M), M * M * (n - 1), Dev2 * ppy)

\* const sortino = downsideDeviation > 0 ? (meanExcessReturn * periodsPerYear)
\* / downsideDeviation : 0, the downside set being the returns below the
\* periodic risk-free rate
sortino(returns) ==
  LET n == Len(returns)
      ppy == PeriodsByLength(n)
      M == ppy * SumSeq(returns) - RiskFreePercent * n
      below == SelectSeq(returns, LAMBDA r : ppy * r < RiskFreePercent)
      Q == SumSeq([i \in DOMAIN below |->
                     (ppy * below[i] - RiskFreePercent)
                     * (ppy * below[i] - RiskFreePercent)])
  IN IF below = <<>> THEN Zero
     ELSE SignedRoot(Sgn(M), M * M * ppy * Len(below), n * n * Q)

\* const cvar = cvarIndex > 0 ? sortedReturns.slice(0, cvarIndex).reduce(...)
\* / cvarIndex * 100 : 0, with cvarIndex = Math.floor(length * 0.05)
cvar(returns) ==
  LET sortedReturns == SortAscending(returns)
      cvarIndex == Len(returns) \div 20
  IN IF cvarIndex > 0
     THEN Number(SumSeq(SubSeq(sortedReturns, 1, cvarIndex)), cvarIndex)
     ELSE Zero

\* const skewness = cubed / Math.pow(variance, 3/2): 0 / 0 when the variance
\* is 0, and with one return both moments are 0 / 0
skewness(returns) ==
  LET n == Len(returns)
      e == ScaledDeviations(returns)
      E2 == SumSeq([i \in DOMAIN e |-> e[i] * e[i]])
      E3 == SumSeq([i \in DOMAIN e |-> e[i] * e[i] * e[i]])
  IN IF n = 1 \/ E2 = 0 THEN NaN
     ELSE SignedRoot(Sgn(E3), E3 * E3 * (n - 1), E2 * E2 * E2)

\* const kurtosis = (fourth / Math.pow(variance, 2)) - 3
kurtosis(returns) ==
  LET n == Len(returns)
      e == ScaledDeviations(returns)
      E2 == SumSeq([i \in DOMAIN e |-> e[i] * e[i]])
      E4 == SumSeq([i \in DOMAIN e |-> e[i] * e[i] * e[i] * e[i]])
  IN IF n = 1 \/ E2 = 0 THEN NaN
     ELSE Number(E4 * (n - 1) - 3 * E2 * E2, E2 * E2)

\* an order statistic read one place lower than the index
valueAtRiskBelowIndex(returns, percent) ==
  LET sortedReturns == SortAscending(returns)
      varIndex == (Len(returns) * percent) \div 100
  IN IF varIndex > 0 THEN Number(sortedReturns[varIndex], 1) ELSE Zero

\* const var95 = var95Index > 0 ? sortedReturns[var95Index] * 100 : 0 with
\* var95Index = Math.floor(length * 0.05); var99 likewise with 0.01 (the
\* code's index k is k + 1 here)
valueAtRisk(returns, percent) ==
  LET sortedReturns == SortAscending(returns)
      varIndex == (Len(returns) * percent) \div 100
  IN IF varIndex > 0 THEN Number(sortedReturns[varIndex + 1], 1) ELSE Zero

\* beta = benchmarkVariance > 0 ? covariance / benchmarkVariance : 0, and 0
\* without a benchmark of the same length
beta(returns, benchmarkReturns) ==
  LET n == Len(returns)
      d == Deviations(returns)
      b == Deviations(benchmarkReturns.v)
      covariance == SumSeq([i \in DOMAIN d |-> d[i] * b[i]])
      benchmarkVariance == SumSeq([i \in DOMAIN b |-> b[i] * b[i]])
  IN IF benchmarkReturns.null \/ Len(benchmarkReturns.v) /= n THEN Zero
     ELSE IF n = 1 \/ benchmarkVariance = 0 THEN Zero
     ELSE Number(covariance, benchmarkVariance)

\* the all-zero record of a null or empty series
NoMetrics ==
  [volatility |-> Zero, sharpe |-> Zero, sortino |-> Zero, cvar |-> Zero]
NoAdditionalMetrics ==
  [skewness |-> Zero, kurtosis |-> Zero, var95 |-> Zero, var99 |-> Zero,
   beta |-> Zero]

\* calculateMetricsForReturns(returns): the statistics of lines 68-100
MetricsOfSeries(returns) ==
  IF returns.null \/ Len(returns.v) = 0 THEN NoMetrics
  ELSE [volatility |-> volatility(returns.v), sharpe |-> sharpe(returns.v),
        sortino |-> sortino(returns.v), cvar |-> cvar(returns.v)]

\* calculateAdditionalMetrics(returns, benchmarkReturns)
calculateAdditionalMetrics(returns, benchmarkReturns) ==
  IF returns.null \/ Len(returns.v) = 0 THEN NoAdditionalMetrics
  ELSE [skewness |-> skewness(returns.v), kurtosis |-> kurtosis(returns.v),
        var95 |-> valueAtRisk(returns.v, 5),
        var99 |-> valueAtRisk(returns.v, 1),
        beta |-> beta(returns.v, benchmarkReturns)]

-----------------------------------------------------------------------------
(* The evaluation callback calculateMetrics.  What it does for a weight map *)
(* is an Outcome: it throws, returns null/undefined, or returns an object   *)
(* whose field for the objective is absent (has = FALSE) or the number v.   *)

Out(k, has, v) == [k |-> k, has |-> has, v |-> v]
Throws == Out("throw", FALSE, 0)
ReturnsNull == Out("null", FALSE, 0)
FieldMissing == Out("obj", FALSE, 0)
Field(v) == Out("obj", TRUE, v)

\* a table callback: any deterministic function into `range`, its answers
\* fixed in memo as they are asked for
TableCb(range) == [kind |-> "table", range |-> range, series |-> <<>>]
\* the callback a caller builds from calculatePortfolioReturns and
\* calculateMetricsForReturns over the per-asset return series
SeriesCb(series) == [kind |-> "series", range |-> {}, series |-> series]

\* calculateMetrics(weights) as the optimizer reads it
Evaluate(cb, tbl, w) ==
  IF cb.kind = "series"
  THEN Field(SharpeOfReturns(
         calculatePortfolioReturns(w, cb.series, [i \in DOMAIN cb.series[1] |-> i])))
  ELSE tbl[w]

-----------------------------------------------------------------------------
(* PortfolioOptimizer helpers *)

Objectives == {"sharpe", "risk", "sortino", "cvar", "other"}

\* a scoring whose catch block returns 0
calculateObjectiveFunctionZeroOnCatch(out, objective) ==
  IF out.k = "throw" THEN 0
  ELSE IF out.k = "null"
  THEN (IF objective = "risk" THEN Penalty ELSE -Penalty)
  ELSE LET falsy == ~out.has \/ out.v = 0
       IN CASE objective = "risk" -> -(IF falsy THEN Penalty ELSE out.v)
            [] objective = "cvar" -> -(IF falsy THEN Penalty ELSE Abs(out.v))
            [] OTHER -> (IF falsy THEN -Penalty ELSE out.v)

\* calculateObjectiveFunction: the score of an outcome.  `v || -999` takes
\* the penalty when the field is absent or 0.
calculateObjectiveFunction(out, objective) ==
  IF out.k \in {"throw", "null"}
  THEN (IF objective = "risk" THEN Penalty ELSE -Penalty)
  ELSE LET falsy == ~out.has \/ out.v = 0
       IN CASE objective = "risk" -> -(IF falsy THEN Penalty ELSE out.v)
            [] objective = "cvar" -> -(IF falsy THEN Penalty ELSE Abs(out.v))
            [] OTHER -> (IF falsy THEN -Penalty ELSE out.v)

\* a validation of the bounds alone
isValidWeightAllocationAnySum(w) ==
  /\ \A a \in DOMAIN w : w[a] >= 0
  /\ \A a \in DOMAIN w : w[a] <= Hundred

\* isValidWeightAllocation: Math.abs(sum - 100) < 0.01 with the sum in tenths
isValidWeightAllocation(w) ==
  /\ \A a \in DOMAIN w : w[a] >= 0
  /\ \A a \in DOMAIN w : w[a] <= Hundred
  /\ Abs(SumSeq(w) - Hundred) * 10 < 1

\* a comparison that also takes a tie for an improvement
isMetricImprovementOrTie(newMetric, currentBest, objective) ==
  newMetric >= currentBest

\* isMetricImprovement: both branches are newMetric > currentBest
isMetricImprovement(newMetric, currentBest, objective) == newMetric > currentBest

\* a transfer that moves twice the step
TransferTwice(w, asset, decreaseAsset, stepSize) ==
  [w EXCEPT ![asset] = @ + 2 * stepSize, ![decreaseAsset] = @ - 2 * stepSize]

\* newWeights[asset] += stepSize; newWeights[decreaseAsset] -= stepSize
Transfer(w, asset, decreaseAsset, stepSize) ==
  [w EXCEPT ![asset] = @ + stepSize, ![decreaseAsset] = @ - stepSize]

\* the score the optimizer gives a weight map
Score(cb, tbl, objective, w) ==
  calculateObjectiveFunction(Evaluate(cb, tbl, w), objective)

\* a partner search that keeps the last other key holding at least stepSize
PartnerLast(w, asset, stepSize) ==
  LET others == {o \in DOMAIN w : o /= asset /\ w[o] >= stepSize}
  IN IF others = {} THEN 0 ELSE CHOOSE o \in others : \A x \in others : o >= x

\* calculateGradients, the partner of `asset`: the first other key holding at
\* least stepSize (0 when there is none: decreaseAsset stays null)
Partner(w, asset, stepSize) ==
  LET others == {o \in DOMAIN w : o /= asset /\ w[o] >= stepSize}
  IN IF others = {} THEN 0 ELSE CHOOSE o \in others : \A x \in others : o <= x

\* calculateGradients: is a perturbed allocation built and evaluated for `asset`
Perturbable(w, asset, stepSize) ==
  /\ Partner(w, asset, stepSize) /= 0
  /\ w[asset] + stepSize <= Hundred
  /\ isValidWeightAllocation(Transfer(w, asset, Partner(w, asset, stepSize), stepSize))

Perturbed(w, asset, stepSize) ==
  Transfer(w, asset, Partner(w, asset, stepSize), stepSize)

\* the weight maps calculateGradients hands to the callback besides `w`
GradientPoints(w, stepSize) ==
  {Perturbed(w, a, stepSize) : a \in {x \in DOMAIN w : Perturbable(w, x, stepSize)}}

\* calculateGradients: (perturbedMetric - baseMetric) / stepSize per asset, in
\* thousandths per percent; stepSize (tenths of a percent) divides 10 here
calculateGradients(cb, tbl, objective, w, stepSize) ==
  LET baseMetric == Score(cb, tbl, objective, w)
  IN [a \in DOMAIN w |->
        IF Perturbable(w, a, stepSize)
        THEN (Score(cb, tbl, objective, Perturbed(w, a, stepSize)) - baseMetric)
             * (10 \div stepSize)
        ELSE 0]

\* a sort by gradient ascending
RECURSIVE SortAscendingGradients(_, _)
SortAscendingGradients(gradients, rest) ==
  IF rest = {} THEN <<>>
  ELSE LET m == CHOOSE a \in rest :
                  \A b \in rest : \/ gradients[a] < gradients[b]
                                  \/ (gradients[a] = gradients[b] /\ a <= b)
       IN <<m>> \o SortAscendingGradients(gradients, rest \ {m})

\* Object.keys(gradients).sort((a, b) => gradients[b] - gradients[a]):
\* descending by gradient, equal gradients staying in key order
RECURSIVE SortDescending(_, _)
SortDescending(gradients, rest) ==
  IF rest = {} THEN <<>>
  ELSE LET m == CHOOSE a \in rest :
                  \A b \in rest : \/ gradients[a] > gradients[b]
                                  \/ (gradients[a] = gradients[b] /\ a <= b)
       IN <<m>> \o SortDescending(gradients, rest \ {m})

sortedAssets(gradients) == SortDescending(gradients, DOMAIN gradients)
assetsToIncrease(gradients) ==
  SelectSeq(sortedAssets(gradients), LAMBDA a : gradients[a] > 0)
assetsToDecrease(gradients) ==
  SelectSeq(sortedAssets(gradients), LAMBDA a : gradients[a] < 0)

Range(s) == {s[i] : i \in DOMAIN s}

\* the guards of the outer (increase) and inner (decrease) loop
MayIncrease(w, changes, asset, stepSize, limit) ==
  /\ Abs(changes[asset]) < limit
  /\ w[asset] < Hundred
  /\ w[asset] + stepSize <= Hundred

MayDecrease(w, changes, asset, stepSize, limit) ==
  /\ Abs(changes[asset]) < limit
  /\ w[asset] > 0
  /\ w[asset] - stepSize >= 0

canIncrease(w, changes, gradients, limit) ==
  \E a \in Range(assetsToIncrease(gradients)) :
     Abs(changes[a]) < limit /\ w[a] < Hundred

canDecrease(w, changes, gradients, limit) ==
  \E a \in Range(assetsToDecrease(gradients)) :
     Abs(changes[a]) < limit /\ w[a] > 0

\* the pairs <<asset, decreaseAsset>> whose newWeights reach the callback, in
\* the order the nested loops visit them
RECURSIVE PairsFor(_, _, _, _, _, _)
PairsFor(w, changes, asset, decs, stepSize, limit) ==
  IF decs = <<>> THEN <<>>
  ELSE (IF /\ MayDecrease(w, changes, Head(decs), stepSize, limit)
           /\ isValidWeightAllocation(Transfer(w, asset, Head(decs), stepSize))
        THEN <<(<<asset, Head(decs)>>)>> ELSE <<>>)
       \o PairsFor(w, changes, asset, Tail(decs), stepSize, limit)

RECURSIVE ScanOrder(_, _, _, _, _, _)
ScanOrder(w, changes, incs, decs, stepSize, limit) ==
  IF incs = <<>> THEN <<>>
  ELSE (IF MayIncrease(w, changes, Head(incs), stepSize, limit)
        THEN PairsFor(w, changes, Head(incs), decs, stepSize, limit) ELSE <<>>)
       \o ScanOrder(w, changes, Tail(incs), decs, stepSize, limit)

\* the index in `pairs` of the first pair whose score improves on bestMetric
\* (0 when none does): the move the pass applies
RECURSIVE FirstImproving(_, _, _, _, _, _, _, _)
FirstImproving(cb, tbl, objective, w, stepSize, best, pairs, i) ==
  IF i > Len(pairs) THEN 0
  ELSE IF isMetricImprovement(
            Score(cb, tbl, objective, Transfer(w, pairs[i][1], pairs[i][2], stepSize)),
            best, objective)
       THEN i
       ELSE FirstImproving(cb, tbl, objective, w, stepSize, best, pairs, i + 1)

-----------------------------------------------------------------------------
(* The two normalizers *)

\* a search for the largest weight that is replaced on an equal weight too
LargestAssetLast(normalized) ==
  LET above == {a \in DOMAIN normalized : normalized[a] > -10}
  IN IF above = {} THEN 0
     ELSE CHOOSE a \in above :
            /\ \A b \in above : normalized[a] >= normalized[b]
            /\ \A b \in above : normalized[b] = normalized[a] => a >= b

\* the asset the remainder goes to: largestWeight starts at -1 (percent) and
\* is replaced on a strictly larger weight (0 when largestAsset stays null)
LargestAsset(normalized) ==
  LET above == {a \in DOMAIN normalized : normalized[a] > -10}
  IN IF above = {} THEN 0
     ELSE CHOOSE a \in above :
            /\ \A b \in above : normalized[a] >= normalized[b]
            /\ \A b \in above : normalized[b] = normalized[a] => a <= b

\* rounding each share to one decimal and giving the remainder to the largest
RoundAndAdjust(w, sum) ==
  LET normalized == [a \in DOMAIN w |-> ToFixedDiv(w[a] * Hundred, sum)]
      difference == Hundred - SumSeq(normalized)
      largestAsset == LargestAsset(normalized)
  IN [normalized |-> normalized,
      difference |-> difference,
      largestAsset |-> IF Abs(difference) > 0 THEN largestAsset ELSE 0]

\* PortfolioOptimizer.normalizeWeights: a new map of numbers
OptimizerNormalizeWeights(w) ==
  LET sum == SumSeq(w)
      r == RoundAndAdjust(w, sum)
  IN IF sum > 0
     THEN [a \in DOMAIN w |->
             IF a = r.largestAsset THEN r.normalized[a] + r.difference
             ELSE r.normalized[a]]
     ELSE [a \in DOMAIN w |-> ToFixedDiv(Hundred, Len(w))]

\* normalizeWeights of portfolio-metrics.js on the object `o` it writes to
\* (its copy of the argument): the shares are stored as the strings toFixed
\* returns, the adjusted largest one as a number; a sum of 0 or less leaves
\* the object as it is
StandaloneNormalizeWeights(o) ==
  LET parsed == [a \in Keys(o) |-> ParseOrZero(o, a)]
      sum == SumSeq(parsed)
      r == RoundAndAdjust(parsed, sum)
  IN IF sum > 0
     THEN Obj([a \in Keys(o) |->
                 IF a = r.largestAsset THEN r.normalized[a] + r.difference
                 ELSE r.normalized[a]],
              {},
              Keys(o) \ {r.largestAsset})
     ELSE o

-----------------------------------------------------------------------------
(* Inputs *)

\* the constructor's options: stepSize in tenths of a percent (the default
\* 0.1 is 1) and maxStagnation (the default is 10)
Options == {[stepSize |-> 1, maxStagnation |-> 10],
            [stepSize |-> 2, maxStagnation |-> 1],
            [stepSize |-> 1, maxStagnation |-> 1]}

\* weight maps that are valid allocations, of two and of three assets
ValidInputs2 ==
  { NumObj(<<500, 500>>), NumObj(<<999, 1>>), NumObj(<<0, Hundred>>),
    NumObj(<<700, 300>>) }
ValidInputs3 ==
  { NumObj(<<500, 300, 200>>), NumObj(<<1, 998, 1>>), NumObj(<<0, 500, 500>>) }
\* weight maps that are not: a wrong sum, a zero sum, a negative weight, an
\* entry that is not a number
OtherInputs ==
  { NumObj(<<500, 300>>), NumObj(<<300, 400, 250>>), NumObj(<<0, 0, 0>>),
    NumObj(<<1500, -500>>), Obj(<<600, 0, 400>>, {2}, {}) }
InputWeights == ValidInputs2 \cup ValidInputs3 \cup OtherInputs

TurnoverLimits == 1..MaxTurnover

\* the answers of a callback that always returns a usable metric
ValueRange == {Field(v) : v \in 1..MaxMetric}
\* the answers of a callback that may fail
FaultRange == {Throws, ReturnsNull, FieldMissing, Field(0), Field(-1), Field(1)}

\* per-asset return series <<x, y, y, y>> in percent (their sample standard
\* deviation is |x - y| / 2, a rational number)
SeriesOf(x, y) == <<(<<x>>), (<<y>>), (<<y>>), (<<y>>)>>
ReturnSeries == {SeriesOf(3, 5), SeriesOf(6, 3), SeriesOf(5, 3)}

\* the calls of gradientDescentOptimization the model makes
SeriesCalls ==
  [w : ValidInputs2 \cup {NumObj(<<500, 300>>)}, objective : {"sharpe"},
   limit : TurnoverLimits,
   cb : {SeriesCb(<<sa, sb>>) : sa \in ReturnSeries, sb \in ReturnSeries}]
ValueCalls ==
  [w : {o \in InputWeights : Len(o.w) = 2}, objective : {"sharpe", "risk"},
   limit : TurnoverLimits, cb : {TableCb(ValueRange)}]
  \cup [w : {o \in InputWeights : Len(o.w) = 3}, objective : {"sharpe"},
        limit : {2}, cb : {TableCb(ValueRange)}]
FaultCalls ==
  [w : {NumObj(<<500, 500>>)}, objective : Objectives,
   limit : {1, 2}, cb : {TableCb(FaultRange)}]
Calls == SeriesCalls \cup ValueCalls \cup FaultCalls

\* the functions from the set `points` to the set `range`, as extensions of a table
Answers(points, range) == [points -> range]

-----------------------------------------------------------------------------
(* State *)

NoCall == [fn |-> "none", objective |-> "sharpe", turnoverLimit |-> 0,
           cb |-> TableCb({})]
NoResult == [success |-> FALSE, error |-> FALSE, initialMetric |-> 0,
             finalMetric |-> 0, iterations |-> 0, improvement |-> 0]
NoPass == [moved |-> FALSE, asset |-> 0, decreaseAsset |-> 0,
           gradients |-> <<>>, scanned |-> <<>>]
EmptyHeap == [caller |-> NoObj, current |-> NoObj, best |-> NoObj, final |-> NoObj]
EmptyTable == [x \in {} |-> Throws]

\* the constructor: options.stepSize || 0.1, options.maxStagnation || 10
Init ==
  /\ pc = "idle"
  /\ opt \in Options
  /\ call = NoCall
  /\ heap = EmptyHeap
  /\ currentRef = "none"
  /\ resultRef = "none"
  /\ snapshot = NoObj
  /\ memo = EmptyTable
  /\ initialMetric = 0
  /\ bestMetric = 0
  /\ totalChanges = <<>>
  /\ iteration = 0
  /\ stagnationCount = 0
  /\ result = NoResult
  /\ runNo = 0
  /\ prevFinal = 0
  /\ threw = FALSE
  /\ last = NoPass

\* the weights the local currentWeights holds
Current == heap[currentRef].w

\* a bound that allows one pass more
MaxIterationsPlusOne == call.turnoverLimit \div opt.stepSize + 1

\* Math.floor(turnoverLimitPercent / stepSize)
MaxIterations == call.turnoverLimit \div opt.stepSize

\* currentWeights = weights: the caller's object under another name
EntryAlias(h) == [heap |-> h, ref |-> "caller"]

\* let currentWeights = { ...weights }: a new object
EntryCopy(h) == [heap |-> [h EXCEPT !.current = h.caller], ref |-> "current"]

\* the points of `points` a table callback has not been asked about yet
Unknown(cb, tbl, points) ==
  IF cb.kind = "table" THEN points \ DOMAIN tbl ELSE {}

\* did the callback throw on one of `points`
ThrewOn(cb, tbl, points) ==
  cb.kind = "table" /\ \E p \in points : tbl[p].k = "throw"

\* a callback that keeps no answer: every evaluation is answered anew
AskedAnew(cb, tbl, points) ==
  IF cb.kind = "table" THEN [p \in {} |-> tbl[p]] ELSE tbl

\* the table restricted to the points asked about
Asked(cb, tbl, points) ==
  IF cb.kind = "table" THEN [p \in points |-> tbl[p]] ELSE tbl

\* gradientDescentOptimization, lines 22-44: the copy of the input, the
\* initial evaluation, the counters
Enter(w, objective, limit, cb, run) ==
  LET h0 == [EmptyHeap EXCEPT !.caller = w]
      c == EntryCopy(h0)
      h1 == [c.heap EXCEPT ![c.ref] = ParseEntries(@)]
      cur == h1[c.ref].w
  IN \E e \in Answers(Unknown(cb, memo, {cur}), cb.range) :
       LET tbl == memo @@ e
           m == Score(cb, tbl, objective, cur)
       IN /\ pc' = "loop"
          /\ call' = [fn |-> "optimize", objective |-> objective,
                      turnoverLimit |-> limit, cb |-> cb]
          /\ heap' = [h1 EXCEPT !.best = h1[c.ref]]
          /\ currentRef' = c.ref
          /\ resultRef' = "none"
          /\ snapshot' = w
          /\ memo' = Asked(cb, tbl, DOMAIN memo \cup {cur})
          /\ initialMetric' = m
          /\ bestMetric' = m
          /\ totalChanges' = [a \in Keys(w) |-> 0]
          /\ iteration' = 0
          /\ stagnationCount' = 0
          /\ result' = NoResult
          /\ runNo' = run
          /\ threw' = ThrewOn(cb, tbl, {cur})
          /\ last' = NoPass

\* a caller calls gradientDescentOptimization(weights, objective,
\* calculateMetrics, turnoverLimit)
Call ==
  /\ pc = "idle"
  /\ \E c \in Calls : Enter(c.w, c.objective, c.limit, c.cb, 1)
  /\ UNCHANGED <<opt, prevFinal>>

\* gradientDescentOptimization(null, ...): { ...null } is {}, the initial
\* evaluation runs on it, Object.keys(weights) throws a TypeError and the
\* catch block returns the failure
CallWithNull ==
  /\ pc = "idle"
  /\ \E objective \in Objectives, limit \in TurnoverLimits :
       call' = [fn |-> "optimize", objective |-> objective,
                turnoverLimit |-> limit, cb |-> TableCb(FaultRange)]
  /\ pc' = "done"
  /\ result' = [NoResult EXCEPT !.error = TRUE]
  /\ runNo' = 1
  /\ UNCHANGED <<opt, heap, currentRef, resultRef, snapshot, memo,
                 initialMetric, bestMetric, totalChanges, iteration,
                 stagnationCount, prevFinal, threw, last>>

\* what one pass of the while loop (lines 46-119) does, the callback's
\* answers being those of `tbl`
PassOutcome(cb, tbl, objective, w, changes, stepSize, limit, best) ==
  LET gradients == calculateGradients(cb, tbl, objective, w, stepSize)
      incs == assetsToIncrease(gradients)
      decs == assetsToDecrease(gradients)
      pairs == ScanOrder(w, changes, incs, decs, stepSize, limit)
      hit == FirstImproving(cb, tbl, objective, w, stepSize, best, pairs, 1)
      base == [kind |-> "stagnate", gradients |-> gradients, pairs |-> <<>>,
               asset |-> 0, decreaseAsset |-> 0]
  IN IF DOMAIN gradients = {} THEN [base EXCEPT !.kind = "break"]
     ELSE IF incs = <<>> \/ decs = <<>> THEN base
     ELSE IF ~canIncrease(w, changes, gradients, limit)
             \/ ~canDecrease(w, changes, gradients, limit)
          THEN [base EXCEPT !.kind = "break"]
     ELSE IF hit = 0 THEN [base EXCEPT !.pairs = pairs]
     ELSE [kind |-> "move", gradients |-> gradients,
           pairs |-> SubSeq(pairs, 1, hit),
           asset |-> pairs[hit][1], decreaseAsset |-> pairs[hit][2]]

\* the weight maps the scan of a pass hands to the callback
ScanPoints(w, out, stepSize) ==
  {Transfer(w, out.pairs[i][1], out.pairs[i][2], stepSize) : i \in DOMAIN out.pairs}

\* every candidate the scan of a pass could reach
AllScanPoints(cb, tbl, objective, w, changes, stepSize, limit) ==
  LET gradients == calculateGradients(cb, tbl, objective, w, stepSize)
      pairs == ScanOrder(w, changes, assetsToIncrease(gradients),
                         assetsToDecrease(gradients), stepSize, limit)
  IN IF ~canIncrease(w, changes, gradients, limit)
        \/ ~canDecrease(w, changes, gradients, limit)
     THEN {}
     ELSE {Transfer(w, pairs[i][1], pairs[i][2], stepSize) : i \in DOMAIN pairs}

\* a tracking that books every move twice
TrackedTwice(changes, asset, decreaseAsset, stepSize) ==
  [changes EXCEPT ![asset] = @ + 2 * stepSize,
                  ![decreaseAsset] = @ - 2 * stepSize]

\* totalChanges[asset] += stepSize; totalChanges[decreaseAsset] -= stepSize
Tracked(changes, asset, decreaseAsset, stepSize) ==
  [changes EXCEPT ![asset] = @ + stepSize, ![decreaseAsset] = @ - stepSize]

\* one pass of the while loop
Pass ==
  /\ pc = "loop"
  /\ iteration < MaxIterations
  /\ stagnationCount < opt.maxStagnation
  /\ LET cb == call.cb
         objective == call.objective
         stepSize == opt.stepSize
         limit == call.turnoverLimit
         w == Current
         gpoints == GradientPoints(w, stepSize)
     IN \E e1 \in Answers(Unknown(cb, memo, {w} \cup gpoints), cb.range) :
        LET tbl1 == memo @@ e1
            spoints == AllScanPoints(cb, tbl1, objective, w, totalChanges,
                                     stepSize, limit)
        IN \E e2 \in Answers(Unknown(cb, tbl1, spoints), cb.range) :
           LET tbl == tbl1 @@ e2
               out == PassOutcome(cb, tbl, objective, w, totalChanges,
                                  stepSize, limit, bestMetric)
               asked == {w} \cup gpoints \cup ScanPoints(w, out, stepSize)
               newWeights == Transfer(w, out.asset, out.decreaseAsset, stepSize)
           IN /\ memo' = Asked(cb, tbl, DOMAIN memo \cup asked)
              /\ threw' = (threw \/ ThrewOn(cb, tbl, asked))
              /\ IF out.kind = "move"
                 THEN /\ heap' = [heap EXCEPT !.current = NumObj(newWeights),
                                              !.best = NumObj(newWeights)]
                      /\ currentRef' = "current"
                      /\ bestMetric' = Score(cb, tbl, objective, newWeights)
                      /\ totalChanges' = Tracked(totalChanges, out.asset,
                                                 out.decreaseAsset, stepSize)
                      /\ stagnationCount' = 0
                 ELSE /\ UNCHANGED <<heap, currentRef, bestMetric, totalChanges>>
                      /\ stagnationCount' =
                           IF out.kind = "break" THEN stagnationCount
                           ELSE stagnationCount + 1
              /\ iteration' = IF out.kind = "break" THEN iteration ELSE iteration + 1
              /\ pc' = IF out.kind = "break" THEN "exit" ELSE "loop"
              /\ last' = [moved |-> out.kind = "move", asset |-> out.asset,
                          decreaseAsset |-> out.decreaseAsset,
                          gradients |-> out.gradients, scanned |-> out.pairs]
  /\ UNCHANGED <<opt, call, resultRef, snapshot, initialMetric, result,
                 runNo, prevFinal>>

\* lines 121-130: the loop is left; normalize bestWeights and return
Return ==
  /\ \/ pc = "exit"
     \/ /\ pc = "loop"
        /\ ~(iteration < MaxIterations /\ stagnationCount < opt.maxStagnation)
  /\ pc' = "done"
  /\ heap' = [heap EXCEPT !.final = NumObj(OptimizerNormalizeWeights(heap.best.w))]
  /\ resultRef' = "final"
  /\ result' = [success |-> TRUE, error |-> FALSE,
                initialMetric |-> initialMetric, finalMetric |-> bestMetric,
                iterations |-> iteration,
                improvement |-> bestMetric - initialMetric]
  /\ UNCHANGED <<opt, call, currentRef, snapshot, memo, initialMetric,
                 bestMetric, totalChanges, iteration, stagnationCount, runNo,
                 prevFinal, threw, last>>

\* the caller runs the optimizer again on the weights it got back, with the
\* same objective, callback and turnoverLimit
CallAgain ==
  /\ pc = "done"
  /\ runNo = 1
  /\ result.success
  /\ call.fn = "optimize"
  /\ prevFinal' = result.finalMetric
  /\ Enter(heap[resultRef], call.objective, call.turnoverLimit, call.cb, 2)
  /\ UNCHANGED opt

\* a caller calls normalizeWeights(weights) of portfolio-metrics.js:
\* const normalizedWeights = { ...weights } is a new object, written to and
\* returned
NormalizeCopy(h) == [heap |-> [h EXCEPT !.final = h.caller], ref |-> "final"]

CallNormalizeWeights ==
  /\ pc = "idle"
  /\ \E w \in InputWeights :
       LET c == NormalizeCopy([EmptyHeap EXCEPT !.caller = w])
       IN /\ heap' = [c.heap EXCEPT ![c.ref] = StandaloneNormalizeWeights(@)]
          /\ resultRef' = c.ref
          /\ snapshot' = w
  /\ pc' = "normalized"
  /\ call' = [NoCall EXCEPT !.fn = "normalizeWeights"]
  /\ UNCHANGED <<opt, currentRef, memo, initialMetric, bestMetric,
                 totalChanges, iteration, stagnationCount, result, runNo,
                 prevFinal, threw, last>>

\* a caller calls the method PortfolioOptimizer.normalizeWeights(weights) on
\* a map of numbers
CallOptimizerNormalize ==
  /\ pc = "idle"
  /\ \E w \in {x \in InputWeights : x.nan = {}} :
       /\ heap' = [EmptyHeap EXCEPT !.caller = w,
                                    !.final = NumObj(OptimizerNormalizeWeights(w.w))]
       /\ snapshot' = w
  /\ resultRef' = "final"
  /\ pc' = "normalized"
  /\ call' = [NoCall EXCEPT !.fn = "PortfolioOptimizer.normalizeWeights"]
  /\ UNCHANGED <<opt, currentRef, memo, initialMetric, bestMetric,
                 totalChanges, iteration, stagnationCount, result, runNo,
                 prevFinal, threw, last>>

Next ==
  \/ Call
  \/ CallWithNull
  \/ Pass
  \/ Return
  \/ CallAgain
  \/ CallNormalizeWeights
  \/ CallOptimizerNormalize

Spec == Init /\ [][Next]_vars

\* One call followed to its end.  The call is synchronous: once entered, the
\* loop runs its passes and the function returns, which the fairness
\* conditions say.
LiveCalls ==
  SeriesCalls \cup FaultCalls
  \cup [w : ValidInputs2, objective : {"sharpe"}, limit : TurnoverLimits,
         cb : {TableCb(ValueRange)}]

LiveCall ==
  /\ pc = "idle"
  /\ \E c \in LiveCalls : Enter(c.w, c.objective, c.limit, c.cb, 1)
  /\ UNCHANGED <<opt, prevFinal>>

LiveNext ==
  \/ LiveCall
  \/ Pass
  \/ Return

\* ENABLED <<Pass>>_vars: the loop condition holds (a pass always changes
\* iteration or pc, and the callback always has an answer)
PassEnabled ==
  /\ pc = "loop"
  /\ iteration < MaxIterations
  /\ stagnationCount < opt.maxStagnation

\* weak fairness of Pass, with its enabling condition written out, and of
\* Return
LiveSpec ==
  /\ Init /\ [][LiveNext]_vars
  /\ (<>[]PassEnabled => []<><<Pass>>_vars)
  /\ WF_vars(Return)

-----------------------------------------------------------------------------
(* Properties *)

Done == pc = "done" /\ call.fn = "optimize"
Succeeded == Done /\ result.success
Returned == heap[resultRef].w
\* the input weights as numbers
InputOf(a) == ParseOrZero(snapshot, a)
InputIsValid == snapshot.nan = {} /\ isValidWeightAllocation(snapshot.w)

\* C1: every successful call returns weights that satisfy the validity
\* predicate (each weight in [0,100], the sum within 0.01 of 100), whatever
\* the input weight map.
C1_ReturnedWeightsValid ==
  Succeeded =>
    /\ \A a \in DOMAIN Returned : Returned[a] >= 0 /\ Returned[a] <= Hundred
    /\ Abs(SumSeq(Returned) - Hundred) * 10 < 1

\* C2: for every weight map the output of either normalizer sums to 100
\* within 0.05 and holds no weight below 0 or above 100.
C2_NormalizerOutputInRange ==
  pc = "normalized" =>
    /\ \A a \in DOMAIN Returned : Returned[a] >= 0 /\ Returned[a] <= Hundred
    /\ Abs(SumSeq(Returned) - Hundred) * 2 <= 1

\* C3: after a successful run every asset's returned weight differs from its
\* input weight by at most turnoverLimit.
C3_ReturnedWithinTurnover ==
  Succeeded =>
    \A a \in DOMAIN Returned : Abs(Returned[a] - InputOf(a)) <= call.turnoverLimit

\* C4: the best score never decreases during a run; a move is applied only on
\* a strictly greater score; currentWeights always equal bestWeights; and a
\* successful result has finalMetric >= initialMetric and
\* improvement = finalMetric - initialMetric >= 0.
C4_BestNeverDecreases ==
  /\ [](pc \in {"loop", "exit"} => Current = heap.best.w)
  /\ [](Succeeded => /\ result.finalMetric >= result.initialMetric
                     /\ result.improvement = result.finalMetric - result.initialMetric
                     /\ result.improvement >= 0)
  /\ [][pc = "loop" /\ pc' \in {"loop", "exit"} =>
          /\ bestMetric' >= bestMetric
          /\ last'.moved => bestMetric' > bestMetric
          /\ ~last'.moved => bestMetric' = bestMetric /\ heap'.best = heap.best
          /\ heap'.best /= heap.best => last'.moved]_vars

\* C4's case: one pass has applied a move, a later pass has scanned a
\* candidate whose score ties the best score and has not applied it, and the
\* run has returned
C4_Witness ==
  /\ Succeeded
  /\ result.improvement > 0
  /\ ~last.moved
  /\ \E i \in DOMAIN last.scanned :
        Score(call.cb, memo, call.objective,
              Transfer(Current, last.scanned[i][1], last.scanned[i][2],
                       opt.stepSize)) = bestMetric

\* C5: a re-run on the returned weights, with the same objective, callback
\* and turnoverLimit, never ends with a lower finalMetric than the run before.
C5_RerunNeverWorse ==
  (Succeeded /\ runNo = 2) => result.finalMetric >= prevFinal

\* the weights the run started from, after parseFloat(..) || 0
Start == ParseEntries(snapshot).w
FirstRun == Done /\ runNo = 1 /\ heap.caller /= NoObj

\* asset A (key 1) has a strictly higher mean and no higher variance than
\* asset B (key 2) in the return series the callback is built from
AHigherMeanNoHigherVariance ==
  /\ call.cb.kind = "series"
  /\ LET A == call.cb.series[1]
         B == call.cb.series[2]
         n == Len(A)
         Total(s) == SumSeq([i \in DOMAIN s |-> s[i][1]])
         Squares(s) == SumSeq([i \in DOMAIN s |-> s[i][1] * s[i][1]])
         Dev(s) == n * Squares(s) - Total(s) * Total(s)
     IN /\ Len(B) = n
        /\ Total(A) > Total(B)
        /\ Dev(A) <= Dev(B)

Known(p) == call.cb.kind = "series" \/ p \in DOMAIN memo
ScoreOf(p) == Score(call.cb, memo, call.objective, p)

\* C7 as stated: from a valid allocation with turnoverLimit >= stepSize, when
\* some valid transfer of stepSize from one asset to another strictly raises
\* the 'sharpe' score, the run succeeds with finalMetric > initialMetric.
C7_ImprovesWhenATransferDoes ==
  (FirstRun /\ call.objective = "sharpe" /\ InputIsValid
     /\ call.turnoverLimit >= opt.stepSize
     /\ \E i \in DOMAIN Start, j \in DOMAIN Start :
          LET p == Transfer(Start, i, j, opt.stepSize)
          IN /\ i /= j
             /\ isValidWeightAllocation(p)
             /\ Known(p)
             /\ ScoreOf(p) > initialMetric) =>
    /\ result.success
    /\ result.finalMetric > result.initialMetric

\* C8: neither gradientDescentOptimization nor the standalone
\* normalizeWeights ever changes a key or a value of the caller's weight map,
\* and the map each returns is an object of its own.
C8_CallerMapUntouched ==
  /\ heap.caller = snapshot
  /\ (pc \in {"done", "normalized"} /\ resultRef /= "none") =>
       (resultRef = "final" /\ resultRef /= "caller")

\* C8's case: a run on a map with an entry that is not a number, which the
\* copy replaces by 0, has moved weight and returned
C8_Witness ==
  /\ Succeeded
  /\ snapshot.nan /= {}
  /\ result.improvement > 0
  /\ Returned /= snapshot.w

C10_InvalidScoresLowest ==
  (call.fn = "optimize" /\ call.cb.kind = "table"
     /\ call.objective \in {"sharpe", "risk", "sortino", "cvar"}) =>
    LET Invalid(o) == o.k \in {"throw", "null"} \/ ~o.has
        Valid(o) == o.k = "obj" /\ o.has /\ o.v /= 0
    IN /\ \A p \in DOMAIN memo, q \in DOMAIN memo :
            (Invalid(memo[p]) /\ Valid(memo[q])) => ScoreOf(p) < ScoreOf(q)
       /\ (pc \in {"loop", "exit", "done"} /\ last.moved) =>
            ~Invalid(memo[heap.best.w])

\* a step of the model that is one pass of the while loop
PassStep == pc = "loop" /\ pc' \in {"loop", "exit"}
\* the pass left the loop by a break
Broke == pc' = "exit"
\* the increase list or the decrease list of the pass is empty
ListEmpty(gradients) ==
  \/ \A a \in DOMAIN gradients : gradients[a] <= 0
  \/ \A a \in DOMAIN gradients : gradients[a] >= 0

\* C22: the search loop terminates: a pass runs only while iteration <
\* floor(turnoverLimit / stepSize) and stagnationCount < maxStagnation, and it
\* breaks or adds 1 to iteration; the returned iterations is at most
\* floor(turnoverLimit / stepSize); stagnationCount counts the passes since
\* the last move and never exceeds maxStagnation; a pass whose increase or
\* decrease list is empty applies no move and counts as stagnation; and every
\* run that entered the loop returns.
C22_LoopTerminates ==
  /\ [][PassStep =>
          /\ iteration < call.turnoverLimit \div opt.stepSize
          /\ stagnationCount < opt.maxStagnation
          /\ Broke \/ iteration' = iteration + 1
          /\ Broke => (iteration' = iteration /\ stagnationCount' = stagnationCount
                       /\ ~last'.moved)
          /\ (~Broke /\ last'.moved) => stagnationCount' = 0
          /\ (~Broke /\ ~last'.moved) => stagnationCount' = stagnationCount + 1
          /\ (~Broke /\ ListEmpty(last'.gradients)) =>
               (~last'.moved /\ heap'.best = heap.best
                /\ stagnationCount' = stagnationCount + 1)]_vars
  /\ []((pc \in {"loop", "exit"}) =>
          /\ iteration <= call.turnoverLimit \div opt.stepSize
          /\ stagnationCount <= opt.maxStagnation
          /\ stagnationCount <= iteration)
  /\ [](Succeeded =>
          /\ result.iterations <= call.turnoverLimit \div opt.stepSize
          /\ result.iterations = iteration)
  /\ ((pc = "loop") ~> Done)

\* C22's case: a run has left the loop on stagnation, with iterations to
\* spare, after a pass with an empty list
C22_Witness ==
  /\ Succeeded
  /\ result.iterations > 0
  /\ result.iterations < call.turnoverLimit \div opt.stepSize
  /\ stagnationCount = opt.maxStagnation
  /\ ListEmpty(last.gradients)

\* the run is inside gradientDescentOptimization, after the initial copy
InRun == call.fn = "optimize" /\ pc \in {"loop", "exit"}

\* C23: a pass applies at most one move; a move adds exactly stepSize to one
\* asset and takes exactly stepSize from another; the changes add up to zero,
\* so the current weights always sum to what the input weights sum to; and
\* every allocation a move makes current and best is a valid allocation.
C23_MovesAreBalancedTransfers ==
  /\ [][PassStep =>
          LET changed == {a \in DOMAIN Current : Current'[a] /= Current[a]}
          IN /\ DOMAIN Current' = DOMAIN Current
             /\ ~last'.moved => changed = {}
             /\ last'.moved =>
                  /\ last'.asset /= last'.decreaseAsset
                  /\ changed = {last'.asset, last'.decreaseAsset}
                  /\ Current'[last'.asset] = Current[last'.asset] + opt.stepSize
                  /\ Current'[last'.decreaseAsset]
                       = Current[last'.decreaseAsset] - opt.stepSize
                  /\ heap'.best.w = Current'
                  /\ \A a \in DOMAIN Current' :
                        Current'[a] >= 0 /\ Current'[a] <= Hundred
                  /\ Abs(SumSeq(Current') - Hundred) * 10 < 1]_vars
  /\ [](InRun =>
          /\ SumSeq(Current) = SumSeq(Start)
          /\ SumSeq(totalChanges) = 0
          /\ \A a \in DOMAIN Current : Current[a] = Start[a] + totalChanges[a])

\* C23's case: a second move has been applied to an allocation of three
\* assets, the same asset gaining twice
C23_Witness ==
  /\ InRun
  /\ Len(Current) = 3
  /\ last.moved
  /\ iteration = 2
  /\ \E a \in DOMAIN Current : totalChanges[a] = 2 * opt.stepSize

\* the place of asset a in the ranking by gradient descending, assets of
\* equal gradient in key order
Rank(gradients, a) ==
  Cardinality({b \in DOMAIN gradients :
                 \/ gradients[b] > gradients[a]
                 \/ (gradients[b] = gradients[a] /\ b < a)})
\* the pair <<i, j>> comes before <<k, l>> in the scan: increase-candidates
\* outer, decrease-candidates inner
ScannedBefore(gradients, i, j, k, l) ==
  \/ Rank(gradients, i) < Rank(gradients, k)
  \/ (i = k /\ Rank(gradients, j) < Rank(gradients, l))
\* moving stepSize from j to i keeps both weights in [0,100] and the
\* allocation valid
WithinBounds(w, i, j) ==
  /\ i /= j
  /\ w[i] + opt.stepSize <= Hundred
  /\ w[j] - opt.stepSize >= 0
  /\ \A a \in DOMAIN w : w[a] >= 0 /\ w[a] <= Hundred
  /\ Abs(SumSeq(w) - Hundred) * 10 < 1

\* C24: the move a pass applies is the first qualifying pair of the scan:
\* assets ranked by gradient descending, increase-candidates (gradient > 0)
\* outer and decrease-candidates (gradient < 0) inner; the pair applied keeps
\* both weights in [0,100] and the allocation valid and strictly improves the
\* best score; no pair before it does (each of them within bounds was
\* evaluated and did not improve); a pass that applies nothing had no
\* qualifying pair; and no asset of gradient 0 is moved.
C24_FirstQualifyingPairApplied ==
  [][PassStep =>
       LET w == Current
           gradients == last'.gradients
           incs == {a \in DOMAIN gradients : gradients[a] > 0}
           decs == {a \in DOMAIN gradients : gradients[a] < 0}
           Evaluated(i, j) ==
             call.cb.kind = "series"
               \/ Transfer(w, i, j, opt.stepSize) \in DOMAIN memo'
           Improves(i, j) ==
             Score(call.cb, memo', call.objective,
                   Transfer(w, i, j, opt.stepSize)) > bestMetric
           Qualifies(i, j) ==
             WithinBounds(w, i, j) /\ Evaluated(i, j) /\ Improves(i, j)
       IN /\ DOMAIN gradients = DOMAIN w
          /\ last'.moved =>
               /\ last'.asset \in incs
               /\ last'.decreaseAsset \in decs
               /\ Qualifies(last'.asset, last'.decreaseAsset)
               /\ \A i \in incs, j \in decs :
                     (ScannedBefore(gradients, i, j, last'.asset,
                                    last'.decreaseAsset)
                        /\ WithinBounds(w, i, j)) =>
                       (Evaluated(i, j) /\ ~Improves(i, j))
          /\ ~last'.moved =>
               \A i \in incs, j \in decs :
                  WithinBounds(w, i, j) => (Evaluated(i, j) /\ ~Improves(i, j))]_vars

\* C24's case: a pass over three assets has scanned a pair that did not
\* improve the best score and has applied the pair after it
C24_Witness ==
  /\ InRun
  /\ Len(Current) = 3
  /\ last.moved
  /\ Len(last.scanned) = 2
  /\ last.scanned[1] /= <<last.asset, last.decreaseAsset>>

\* C25: for every objective the score of an allocation whose evaluation
\* returned a number v for the metric is sharpe -> v, risk -> -v, sortino ->
\* v, cvar -> -|v|, any other objective as sharpe; v = 0 included, which
\* scores 0.
C25_ScoreFollowsObjectiveMapping ==
  (call.fn = "optimize" /\ call.cb.kind = "table") =>
    \A p \in DOMAIN memo :
       (memo[p].k = "obj" /\ memo[p].has) =>
         ScoreOf(p) = CASE call.objective = "risk" -> -memo[p].v
                        [] call.objective = "cvar" -> -Abs(memo[p].v)
                        [] OTHER -> memo[p].v

\* o is the first asset other than a, in key order, that holds at least
\* stepSize
FirstHolder(w, a, o) ==
  /\ o /= a
  /\ w[o] >= opt.stepSize
  /\ \A x \in DOMAIN w : (x < o /\ x /= a) => w[x] < opt.stepSize
SumIsHundred(w) == Abs(SumSeq(w) - Hundred) * 10 < 1

\* C26: calculateGradients returns one entry per asset of the current
\* weights; for asset a with a first other asset o holding at least stepSize,
\* a + stepSize <= 100 and a valid candidate (a up by stepSize, o down by
\* stepSize) the entry is (score(candidate) - score(current)) / stepSize, and
\* it is 0 otherwise; when the current weights do not sum to 100 within 0.01
\* every gradient is 0 and the run applies no move.
C26_GradientsAreFiniteDifferences ==
  /\ [][PassStep =>
          LET w == Current
              gradients == last'.gradients
              Candidate(a, o) ==
                [w EXCEPT ![a] = @ + opt.stepSize, ![o] = @ - opt.stepSize]
              Usable(a, o) ==
                /\ FirstHolder(w, a, o)
                /\ w[a] + opt.stepSize <= Hundred
                /\ \A x \in DOMAIN w :
                      Candidate(a, o)[x] >= 0 /\ Candidate(a, o)[x] <= Hundred
                /\ SumIsHundred(Candidate(a, o))
              ScoreAt(p) == Score(call.cb, memo', call.objective, p)
          IN /\ DOMAIN gradients = DOMAIN w
             /\ \A a \in DOMAIN w :
                   /\ \A o \in DOMAIN w :
                         Usable(a, o) =>
                           /\ call.cb.kind = "table" =>
                                Candidate(a, o) \in DOMAIN memo'
                           /\ gradients[a] * opt.stepSize
                                = (ScoreAt(Candidate(a, o)) - ScoreAt(w)) * 10
                   /\ (~\E o \in DOMAIN w : Usable(a, o)) => gradients[a] = 0
             /\ ~SumIsHundred(w) =>
                  /\ \A a \in DOMAIN w : gradients[a] = 0
                  /\ ~last'.moved]_vars
  /\ []((Succeeded /\ ~SumIsHundred(Start)) =>
          (heap.best.w = Start /\ result.improvement = 0))

\* C26's case: a pass over three assets, the first holding less than
\* stepSize, so that the partner of the third is the second; the gradients of
\* the first and the third are not 0
C26_Witness ==
  /\ InRun
  /\ iteration = 1
  /\ Len(Start) = 3
  /\ Start[1] < opt.stepSize
  /\ last.gradients[1] /= 0
  /\ last.gradients[3] /= 0
  /\ last.gradients[3] /= last.gradients[1]

\* C29: the callback being deterministic, once a pass applies no move no
\* later pass of the run applies one: stagnationCount never returns to 0 after
\* it has become positive, the moves applied form a prefix of the run (a pass
\* that follows a pass without a move applies none and leaves the current and
\* best weights and the best score as they are), and the weights returned are
\* the normalized weights held at the first pass without a move.
C29_NoMoveAfterStagnation ==
  /\ [][PassStep =>
          /\ stagnationCount > 0 =>
               /\ ~last'.moved
               /\ stagnationCount' > 0
               /\ Current' = Current
               /\ heap'.best = heap.best
               /\ bestMetric' = bestMetric
               /\ totalChanges' = totalChanges
          /\ (iteration > 0 /\ ~last.moved) => ~last'.moved
          /\ ~last'.moved => (Current' = Current /\ heap'.best = heap.best)]_vars
  /\ [](InRun =>
          /\ heap.best.w = Current
          /\ (iteration > 0 /\ pc = "loop") => (last.moved <=> stagnationCount = 0)
          /\ stagnationCount > 0 => ~last.moved)
  /\ [](Succeeded => Returned = OptimizerNormalizeWeights(Current))

\* C29's case: a run has applied a move, then made two passes without one,
\* and has returned
C29_Witness ==
  /\ Succeeded
  /\ stagnationCount >= 2
  /\ result.iterations > stagnationCount
  /\ result.improvement > 0
  /\ ~last.moved

\* the sum of the weight increases, and of the decreases, of w over the input
Increases(w) ==
  SumSeq([a \in DOMAIN w |-> IF w[a] > Start[a] THEN w[a] - Start[a] ELSE 0])
Decreases(w) ==
  SumSeq([a \in DOMAIN w |-> IF w[a] < Start[a] THEN Start[a] - w[a] ELSE 0])
\* the moves applied so far: the passes before the first one without a move
Moves == iteration - stagnationCount

\* C30: a run applies at most floor(turnoverLimit / stepSize) moves, so before
\* the final normalization the weight increases, and the decreases, add up to
\* at most turnoverLimit; whenever a pass tests it, every asset's
\* totalChanges is below turnoverLimit in absolute value, so the turnover
\* guard rejects no candidate; and the "reached turnover limit" break is taken
\* only when no increase-candidate is below 100 or no decrease-candidate is
\* above 0.
C30_TurnoverGuardNeverRejects ==
  /\ [](InRun =>
          /\ Moves >= 0
          /\ Moves <= call.turnoverLimit \div opt.stepSize
          /\ Increases(Current) <= Moves * opt.stepSize
          /\ Decreases(Current) = Increases(Current)
          /\ Increases(heap.best.w) <= call.turnoverLimit
          /\ Decreases(heap.best.w) <= call.turnoverLimit
          /\ \A a \in DOMAIN totalChanges :
                Abs(totalChanges[a]) <= call.turnoverLimit)
  /\ [][PassStep =>
          LET w == Current
              gradients == last'.gradients
              incs == {a \in DOMAIN gradients : gradients[a] > 0}
              decs == {a \in DOMAIN gradients : gradients[a] < 0}
          IN /\ \A a \in DOMAIN totalChanges :
                   Abs(totalChanges[a]) < call.turnoverLimit
             /\ \A a \in incs :
                   MayIncrease(w, totalChanges, a, opt.stepSize, call.turnoverLimit)
                     <=> (w[a] < Hundred /\ w[a] + opt.stepSize <= Hundred)
             /\ \A a \in decs :
                   MayDecrease(w, totalChanges, a, opt.stepSize, call.turnoverLimit)
                     <=> (w[a] > 0 /\ w[a] - opt.stepSize >= 0)
             /\ (Broke /\ incs /= {} /\ decs /= {}) =>
                  \/ \A a \in incs : w[a] >= Hundred
                  \/ \A a \in decs : w[a] <= 0]_vars

\* C30's case: every pass the limit allows has applied a move to the same
\* asset, whose totalChanges has reached turnoverLimit when the loop ends
C30_Witness ==
  /\ Succeeded
  /\ result.iterations = 3
  /\ Moves = 3
  /\ Increases(heap.best.w) = call.turnoverLimit
  /\ \E a \in DOMAIN totalChanges : totalChanges[a] = call.turnoverLimit

\* the break of line 71 taken: the only decrease-candidate holds nothing
BreakOnBounds ==
  /\ pc = "exit"
  /\ \E a \in DOMAIN last.gradients : last.gradients[a] > 0
  /\ \E a \in DOMAIN last.gradients : last.gradients[a] < 0

-----------------------------------------------------------------------------
(* Second specification: the pure functions of portfolio-metrics.js and    *)
(* the two normalizers, each applied to an input drawn at the start.  call *)
(* holds the function's name and arguments, result what it returns.        *)

\* weight maps the normalizers are compared on: maps of numbers
NormalizerInputs ==
  {x \in InputWeights : x.nan = {}}
  \cup { NumObj(<<455, 302, 241>>), NumObj(<<0, 0>>), NumObj(<<333, 333, 333>>),
         NumObj(<<1, 1, 1>>), NumObj(<<1, 1, 1, 1, 1, 1>>), NumObj(<<2, 1>>),
         NumObj(<<1, 3, 3>>), NumObj(<<3, 1, 3>>), NumObj(<<334, 333, 333>>) }

NormalizerCalls == [fn : {"normalizeWeights"}, weights : NormalizerInputs]

\* normalizeWeights(weights) of portfolio-metrics.js is called
ApplyStandaloneNormalizer ==
  /\ pc = "idle"
  /\ call.fn = "normalizeWeights"
  /\ result = NoResult
  /\ result' = [standalone |-> StandaloneNormalizeWeights(call.weights)]
  /\ UNCHANGED <<pc, opt, call, heap, currentRef, resultRef, snapshot, memo,
                 initialMetric, bestMetric, totalChanges, iteration,
                 stagnationCount, runNo, prevFinal, threw, last>>

\* PortfolioOptimizer.normalizeWeights(weights) is called on the same map
ApplyOptimizerNormalizer ==
  /\ pc = "idle"
  /\ call.fn = "normalizeWeights"
  /\ result /= NoResult
  /\ result' = [standalone |-> result.standalone,
                embedded |-> NumObj(OptimizerNormalizeWeights(call.weights.w))]
  /\ pc' = "returned"
  /\ UNCHANGED <<opt, call, heap, currentRef, resultRef, snapshot, memo,
                 initialMetric, bestMetric, totalChanges, iteration,
                 stagnationCount, runNo, prevFinal, threw, last>>

\* a series element: null / undefined, or a return in percent
SeriesValues == {<<>>, <<-2>>, <<0>>, <<3>>}
\* per-asset series of two periods for two assets, and one where the second
\* asset has no series
AssetReturnSets ==
  {<<(<<a1, a2>>), (<<b1, b2>>)>> :
     a1 \in SeriesValues, a2 \in SeriesValues,
     b1 \in SeriesValues, b2 \in {<<>>, <<3>>}}
  \cup {<<(<<(<<3>>), (<<-2>>)>>)>>}
\* the indices asked for (the code's index 0 is 1 here); 3 is outside
IndexLists == {<<>>, <<1, 2>>, <<2, 1, 2>>, <<1, 3>>}
AggregatorWeights ==
  {<<600, 400>>, <<Hundred, 0>>, <<0, 0>>, <<500, -500>>, <<300, 300>>}

AggregatorCalls ==
  [fn : {"calculatePortfolioReturns", "backupCalculatePortfolioReturns"},
   weights : AggregatorWeights, assetReturns : AssetReturnSets,
   indices : IndexLists]

\* calculatePortfolioReturns(weights, assetReturns, indices) is called
ApplyCalculatePortfolioReturns ==
  /\ pc = "idle"
  /\ call.fn = "calculatePortfolioReturns"
  /\ result' = calculatePortfolioReturns(call.weights, call.assetReturns,
                                         call.indices)
  /\ pc' = "returned"
  /\ UNCHANGED <<opt, call, heap, currentRef, resultRef, snapshot, memo,
                 initialMetric, bestMetric, totalChanges, iteration,
                 stagnationCount, runNo, prevFinal, threw, last>>

\* backupCalculatePortfolioReturns(indices, weights) is called, the
\* component's filtered data being assetReturns
ApplyBackupPortfolioReturns ==
  /\ pc = "idle"
  /\ call.fn = "backupCalculatePortfolioReturns"
  /\ result' = backupCalculatePortfolioReturns(call.indices, call.weights,
                                               call.assetReturns)
  /\ pc' = "returned"
  /\ UNCHANGED <<opt, call, heap, currentRef, resultRef, snapshot, memo,
                 initialMetric, bestMetric, totalChanges, iteration,
                 stagnationCount, runNo, prevFinal, threw, last>>

\* periodic returns in percent (multiples of 50, so that 1 + r/100 is a
\* multiple of 1/2), and the series of them up to MaxLen long
ReturnValues == {-50, 0, 50, 100}
RECURSIVE SeriesUpTo(_)
SeriesUpTo(n) ==
  IF n = 0 THEN {<<>>}
  ELSE LET shorter == SeriesUpTo(n - 1)
       IN shorter \cup {Append(x, r) : x \in {y \in shorter : Len(y) = n - 1},
                                       r \in ReturnValues}

CumulativeCalls ==
  [fn : {"calculateCumulativeReturns"},
   returns : {NoSeries} \cup {Series(v) : v \in SeriesUpTo(MaxLen)}]

\* calculateCumulativeReturns(returns) is called
ApplyCalculateCumulativeReturns ==
  /\ pc = "idle"
  /\ call.fn = "calculateCumulativeReturns"
  /\ result' = calculateCumulativeReturns(call.returns)
  /\ pc' = "returned"
  /\ UNCHANGED <<opt, call, heap, currentRef, resultRef, snapshot, memo,
                 initialMetric, bestMetric, totalChanges, iteration,
                 stagnationCount, runNo, prevFinal, threw, last>>

\* lengths of the return series around the thresholds of the heuristic
SeriesLengths == {0, 1, 4, 10, 11, 36, 50, 51, 200, 201, 1000, 1001}
\* date strings: one that does not parse, and times (in half days) whose gaps
\* lie around the thresholds 1.5, 8, 35 and 100 days
DateValues ==
  {<<>>} \cup {<<t>> : t \in {0, 3, 4, 16, 17, 58, 70, 71, 200, 201}}
DateLists ==
  {NoDates, Dates(<<>>)}
  \cup {Dates(<<d>>) : d \in DateValues}
  \cup {Dates(<<d, e>>) : d \in DateValues, e \in DateValues}
  \cup {Dates(<<d, e, f>>) : d \in DateValues, e \in DateValues,
                             f \in {<<>>, <<0>>}}

FrequencyCalls ==
  [fn : {"detectFrequency", "calculateMetricsForReturns"},
   returns : {NoReturns} \cup {ReturnsOfLength(n) : n \in SeriesLengths},
   dates : DateLists]

\* detectFrequency(returns, dates) is called
ApplyDetectFrequency ==
  /\ pc = "idle"
  /\ call.fn = "detectFrequency"
  /\ result' = detectFrequency(call.returns, call.dates)
  /\ pc' = "returned"
  /\ UNCHANGED <<opt, call, heap, currentRef, resultRef, snapshot, memo,
                 initialMetric, bestMetric, totalChanges, iteration,
                 stagnationCount, runNo, prevFinal, threw, last>>

\* calculateMetricsForReturns(returns, 0.02, dates) is called
ApplyCalculateMetricsForReturns ==
  /\ pc = "idle"
  /\ call.fn = "calculateMetricsForReturns"
  /\ result' = calculateMetricsForReturns(call.returns, call.dates)
  /\ pc' = "returned"
  /\ UNCHANGED <<opt, call, heap, currentRef, resultRef, snapshot, memo,
                 initialMetric, bestMetric, totalChanges, iteration,
                 stagnationCount, runNo, prevFinal, threw, last>>

\* short series of returns in percent, on both sides of the periodic
\* risk-free rate (2 percent for a series this short)
ShortValues == {-1, 2, 3}
ShortSeries ==
  {<<x>> : x \in ShortValues}
  \cup {<<x, y>> : x \in ShortValues, y \in ShortValues}
  \cup {<<x, y, z>> : x \in ShortValues, y \in ShortValues, z \in ShortValues}

\* a series of n returns around c: a and -a at its ends, -b and b next to
\* them, c everywhere else
LongSeries(n, c, a, b) ==
  [i \in 1..n |->
     c + (IF i = 1 THEN a ELSE IF i = 2 THEN -b
          ELSE IF i = n - 1 THEN b ELSE IF i = n THEN -a ELSE 0)]
TailShapes == {<<0, 0>>, <<2, 1>>, <<2, 2>>, <<3, 0>>, <<3, 2>>}
\* lengths around the multiples of 20 the tail index steps at
TailLengths == {19, 20, 21, 39, 40}
\* and around those of 100
LongTailLengths == {99, 100, 200}
SeriesOfLengths(lengths) ==
  {LongSeries(n, c, t[1], t[2]) : n \in lengths, c \in {-1, 0, 2},
                                  t \in TailShapes}

Benchmarks ==
  {NoSeries, Series(<<1>>), Series(<<1, 1>>), Series(<<1, 3>>),
   Series(<<1, 1, 1>>), Series(<<0, 1, 3>>)}

StatisticsCalls ==
  [fn : {"calculateMetricsForReturns(values)"},
   returns : {NoSeries, Series(<<>>)}
             \cup {Series(v) : v \in ShortSeries \cup SeriesOfLengths(TailLengths)}]
AdditionalCalls ==
  [fn : {"calculateAdditionalMetrics"},
   returns : {NoSeries, Series(<<>>)}
             \cup {Series(v) : v \in ShortSeries},
   benchmarkReturns : Benchmarks]
  \cup [fn : {"calculateAdditionalMetrics"},
        returns : {Series(v) : v \in SeriesOfLengths(TailLengths
                                                       \cup LongTailLengths)},
        benchmarkReturns : {NoSeries}]

\* calculateMetricsForReturns(returns) is called on a series of values
ApplyMetricsOfSeries ==
  /\ pc = "idle"
  /\ call.fn = "calculateMetricsForReturns(values)"
  /\ result' = MetricsOfSeries(call.returns)
  /\ pc' = "returned"
  /\ UNCHANGED <<opt, call, heap, currentRef, resultRef, snapshot, memo,
                 initialMetric, bestMetric, totalChanges, iteration,
                 stagnationCount, runNo, prevFinal, threw, last>>

\* calculateAdditionalMetrics(returns, benchmarkReturns) is called
ApplyCalculateAdditionalMetrics ==
  /\ pc = "idle"
  /\ call.fn = "calculateAdditionalMetrics"
  /\ result' = calculateAdditionalMetrics(call.returns, call.benchmarkReturns)
  /\ pc' = "returned"
  /\ UNCHANGED <<opt, call, heap, currentRef, resultRef, snapshot, memo,
                 initialMetric, bestMetric, totalChanges, iteration,
                 stagnationCount, runNo, prevFinal, threw, last>>

MetricCalls ==
  NormalizerCalls \cup AggregatorCalls \cup CumulativeCalls \cup FrequencyCalls
  \cup StatisticsCalls \cup AdditionalCalls

MetricsInit ==
  /\ pc = "idle"
  /\ opt = [stepSize |-> 1, maxStagnation |-> 10]
  /\ call \in MetricCalls
  /\ heap = EmptyHeap
  /\ currentRef = "none"
  /\ resultRef = "none"
  /\ snapshot = NoObj
  /\ memo = EmptyTable
  /\ initialMetric = 0
  /\ bestMetric = 0
  /\ totalChanges = <<>>
  /\ iteration = 0
  /\ stagnationCount = 0
  /\ result = NoResult
  /\ runNo = 0
  /\ prevFinal = 0
  /\ threw = FALSE
  /\ last = NoPass

MetricsNext ==
  \/ ApplyStandaloneNormalizer
  \/ ApplyOptimizerNormalizer
  \/ ApplyCalculatePortfolioReturns
  \/ ApplyBackupPortfolioReturns
  \/ ApplyCalculateCumulativeReturns
  \/ ApplyDetectFrequency
  \/ ApplyCalculateMetricsForReturns
  \/ ApplyMetricsOfSeries
  \/ ApplyCalculateAdditionalMetrics

MetricsSpec == MetricsInit /\ [][MetricsNext]_vars

BothNormalized == pc = "returned" /\ call.fn = "normalizeWeights"
InputSum == SumSeq(call.weights.w)

\* C11: the standalone normalizeWeights and PortfolioOptimizer.normalizeWeights
\* return the same keys with the same numeric values for the same input map,
\* maps whose sum is 0 included.
C11_NormalizersAgree ==
  BothNormalized =>
    /\ Keys(result.standalone) = Keys(result.embedded)
    /\ \A a \in Keys(result.embedded) :
         result.standalone.w[a] = result.embedded.w[a]

\* C12: when the input weights sum to 0 the normalizer gives every asset the
\* same weight and the result sums to 100.
C12_ZeroSumSplitEqually ==
  (BothNormalized /\ InputSum = 0) =>
    \A o \in {result.standalone, result.embedded} :
       /\ \A a \in Keys(o), b \in Keys(o) : o.w[a] = o.w[b]
       /\ SumSeq(o.w) = Hundred

Aggregated == pc = "returned" /\ call.fn = "calculatePortfolioReturns"
\* the assets of positive weight, and those of them with a value at `index`
Positive == {a \in DOMAIN call.weights : call.weights[a] > 0}
HasValue(a, index) ==
  /\ a \in DOMAIN call.assetReturns
  /\ index \in DOMAIN call.assetReturns[a]
  /\ call.assetReturns[a][index] /= <<>>
\* sum over the assets of `assets` of weight x value at `index`
SumOver(assets, index) ==
  SumSeq([a \in DOMAIN call.weights |->
            IF a \in assets THEN call.weights[a] * call.assetReturns[a][index][1]
            ELSE 0])
TotalWeight(assets) ==
  SumSeq([a \in DOMAIN call.weights |->
            IF a \in assets THEN call.weights[a] ELSE 0])

\* C13: at an index where an active asset has no value, calculatePortfolioReturns
\* skips it and reweights the assets that have one: the element is their
\* weighted return over their own total weight, not the sum in which the
\* missing value counts as 0.
C13_MissingValueReweights ==
  Aggregated =>
    \A i \in DOMAIN call.indices :
       LET index == call.indices[i]
           active == Positive \cap DOMAIN call.assetReturns
           valued == {a \in active : HasValue(a, index)}
       IN (SumSeq(call.weights) /= 0 /\ valued /= {} /\ valued /= active) =>
            result[i] * TotalWeight(valued) = Hundred * SumOver(valued, index)

\* C14: calculatePortfolioReturns returns as many elements as indices; where
\* every asset of positive weight has a value the element is the sum of
\* weight/100 x value over those assets; with a total weight of 0 or no
\* active asset every element is 0.
C14_AggregatorSumsWeightedValues ==
  Aggregated =>
    /\ Len(result) = Len(call.indices)
    /\ \A i \in DOMAIN call.indices :
         (SumSeq(call.weights) /= 0 /\ Positive /= {}
            /\ \A a \in Positive : HasValue(a, call.indices[i])) =>
           result[i] = SumOver(Positive, call.indices[i])
    /\ (SumSeq(call.weights) = 0
          \/ Positive \cap DOMAIN call.assetReturns = {}) =>
         \A i \in DOMAIN call.indices : result[i] = 0

\* C14's case: weights {A: 60, B: 40} over three indices, every value there,
\* with a first element that is not 0
C14_Witness ==
  /\ Aggregated
  /\ call.weights = <<600, 400>>
  /\ Len(call.indices) = 3
  /\ \A i \in DOMAIN call.indices, a \in Positive : HasValue(a, call.indices[i])
  /\ result[1] /= 0
  /\ result[1] = 600 * call.assetReturns[1][call.indices[1]][1]
                 + 400 * call.assetReturns[2][call.indices[1]][1]

Cumulated == pc = "returned" /\ call.fn = "calculateCumulativeReturns"

\* C15: calculateCumulativeReturns returns as many elements as its input
\* holds, and the first element of the result for a non-empty input is 0.
C15_SameLengthStartsAtZero ==
  Cumulated =>
    /\ Len(result) = Len(call.returns.v)
    /\ Len(call.returns.v) > 0 => (result[1].num = 0 /\ result[1].den = 1)

\* C15's case: a series of MaxLen returns, the first of them not 0, has been
\* turned into its cumulative returns
C15_Witness ==
  /\ Cumulated
  /\ Len(call.returns.v) = MaxLen
  /\ call.returns.v[1] /= 0
  /\ Len(result) = MaxLen
  /\ result[1].num = 0

\* the product of (100 + r) / 50 over the first n elements of v
RECURSIVE Halves(_, _)
Halves(v, n) ==
  IF n = 0 THEN 1 ELSE ((100 + v[n]) \div 50) * Halves(v, n - 1)
RECURSIVE Pow2(_)
Pow2(n) == IF n = 0 THEN 1 ELSE 2 * Pow2(n - 1)

\* C16: every element after the first chains the element before it with the
\* return of the period before: cumulative[i] = (1 + cumulative[i-1]/100) *
\* (1 + returns[i-1]/100) * 100 - 100; so cumulative[i] is 100 * the product
\* of (1 + returns[k]/100) over k < i, minus 100: it depends on returns[0..i-1]
\* only and the last return of the input enters no element.
C16_ChainsWithPriorReturn ==
  Cumulated =>
    \A i \in 2..Len(result) :
       LET prior == result[i - 1]
           r == call.returns.v[i - 1]
       IN /\ result[i].num * (100 * prior.den)
               = result[i].den * ((100 * prior.den + prior.num) * (100 + r)
                                    - 10000 * prior.den)
          /\ (100 * result[i].den + result[i].num) * Pow2(i - 1)
               = 100 * result[i].den * Halves(call.returns.v, i - 1)

\* C16's case: a series whose last return differs from the one before it
\* and whose cumulative returns have moved away from 0
C16_Witness ==
  /\ Cumulated
  /\ Len(result) = MaxLen
  /\ call.returns.v[MaxLen] /= call.returns.v[MaxLen - 1]
  /\ result[2].num /= 0
  /\ result[MaxLen].num /= result[MaxLen - 1].num

Detected == pc = "returned" /\ call.fn = "detectFrequency"
\* the first two dates are there and both parse
TwoParseableDates ==
  /\ ~call.dates.null
  /\ Len(call.dates.v) >= 2
  /\ call.dates.v[1] /= <<>>
  /\ call.dates.v[2] /= <<>>
FewerThanTwoDates == call.dates.null \/ Len(call.dates.v) < 2
\* the first two dates are there and one of them does not parse
UnparseableDates ==
  /\ ~call.dates.null
  /\ Len(call.dates.v) >= 2
  /\ (call.dates.v[1] = <<>> \/ call.dates.v[2] = <<>>)
\* periods per year by the length of the series, as the claims state it
ClaimedByLength(n) ==
  CASE n > 1000 -> <<252, "daily">>
    [] n <= 1000 /\ n > 200 -> <<52, "weekly">>
    [] n <= 200 /\ n > 50 -> <<12, "monthly">>
    [] n <= 50 /\ n > 10 -> <<4, "quarterly">>
    [] OTHER -> <<1, "annual">>

C18_UnparseableDatesFallBack ==
  (Detected /\ ~call.returns.null /\ UnparseableDates) =>
    <<result.periods, result.name>> = ClaimedByLength(call.returns.length)

\* C19: detectFrequency never raises: for every input, a missing or empty
\* return series included, it returns one of (252, daily), (52, weekly),
\* (12, monthly), (4, quarterly), (1, annual) with factor = sqrt(periods).
C19_AlwaysAFrequencyInfo ==
  Detected =>
    /\ ~result.raised
    /\ <<result.periods, result.name>> \in
         {<<252, "daily">>, <<52, "weekly">>, <<12, "monthly">>,
          <<4, "quarterly">>, <<1, "annual">>}
    /\ result.factorSquared = result.periods

\* C20: calculateMetricsForReturns on a short series of monthly returns
\* without dates (the 4 values [1.2, -0.8, 2.1, 0.5]) reports the frequency
\* 'monthly'.
C20_ShortSeriesIsMonthly ==
  (pc = "returned" /\ call.fn = "calculateMetricsForReturns"
     /\ call.returns = ReturnsOfLength(4) /\ call.dates = NoDates) =>
    result.frequency = "monthly"

HasStatistics == pc = "returned" /\ call.fn = "calculateMetricsForReturns(values)"
HasAdditional == pc = "returned" /\ call.fn = "calculateAdditionalMetrics"
IsZero(m) == ~m.nan /\ m.num = 0
\* a non-empty series whose returns are all the same
ConstantSeries(returns) ==
  /\ ~returns.null
  /\ Len(returns.v) > 0
  /\ \A i \in DOMAIN returns.v : returns.v[i] = returns.v[1]
SingleReturn(returns) == ~returns.null /\ Len(returns.v) = 1

\* C21: no division by zero in the Metrics Engine gives NaN: for a constant
\* non-empty series sharpe, skewness and kurtosis are 0; for a series of one
\* return volatility, sharpe, skewness and kurtosis are 0; with no return
\* below the periodic risk-free rate sortino is 0; with a benchmark of zero
\* variance beta is 0.
C21_DivisionByZeroGivesZero ==
  /\ HasStatistics =>
       /\ \A f \in DOMAIN result : ~result[f].nan
       /\ ConstantSeries(call.returns) => IsZero(result.sharpe)
       /\ SingleReturn(call.returns) =>
            (IsZero(result.volatility) /\ IsZero(result.sharpe))
       /\ (~call.returns.null
             /\ \A i \in DOMAIN call.returns.v :
                   call.returns.v[i] * PeriodsByLength(Len(call.returns.v))
                     >= RiskFreePercent) =>
            IsZero(result.sortino)
  /\ HasAdditional =>
       /\ \A f \in DOMAIN result : ~result[f].nan
       /\ (ConstantSeries(call.returns) \/ SingleReturn(call.returns)) =>
            (IsZero(result.skewness) /\ IsZero(result.kurtosis))
       /\ ConstantSeries(call.benchmarkReturns) => IsZero(result.beta)

\* the share of 100 of asset a in the input map, rounded to one decimal, and
\* what the rounded shares leave of 100
Share(a) == ToFixedDiv(call.weights.w[a] * Hundred, InputSum)
Remainder ==
  Hundred - SumSeq([a \in Keys(call.weights) |-> Share(a)])

\* C27: for a map of positive sum either normalizer gives every asset its
\* share of 100 rounded to one decimal (the nearest tenth), except that the
\* full remainder 100 - sum(rounded) goes to one asset, the one of largest
\* rounded share and the first of them in key order; the total is exactly
\* 100.0; and normalizing the result again returns it unchanged.
C27_RemainderGoesToLargest ==
  (BothNormalized /\ InputSum > 0) =>
    /\ \A a \in Keys(call.weights) :
          2 * Abs(Share(a) * InputSum - call.weights.w[a] * Hundred) <= InputSum
    /\ \A o \in {result.standalone, result.embedded} :
          LET adjusted == {a \in Keys(o) : o.w[a] /= Share(a)}
          IN /\ Keys(o) = Keys(call.weights)
             /\ Remainder = 0 => adjusted = {}
             /\ Remainder /= 0 =>
                  \E l \in Keys(o) :
                     /\ adjusted = {l}
                     /\ o.w[l] = Share(l) + Remainder
                     /\ \A b \in Keys(o) :
                           /\ Share(b) <= Share(l)
                           /\ Share(b) = Share(l) => l <= b
             /\ SumSeq(o.w) = Hundred
             /\ OptimizerNormalizeWeights(o.w) = o.w
             /\ StandaloneNormalizeWeights(o).w = o.w

\* C27's case: three equal weights, whose rounded shares 33.3 leave 0.1: the
\* first asset gets 33.4
C27_Witness ==
  /\ BothNormalized
  /\ call.weights.w = <<1, 1, 1>>
  /\ Remainder = 1
  /\ result.embedded.w = <<334, 333, 333>>
  /\ result.standalone.w = <<334, 333, 333>>

\* x is the element at the 0-based place `index` of the series v sorted
\* ascending: at most `index` elements are below it and more than `index` are
\* not above it
Below(v, x) == Cardinality({i \in DOMAIN v : v[i] < x})
NotAbove(v, x) == Cardinality({i \in DOMAIN v : v[i] <= x})
IsOrderStatistic(v, index, x) ==
  /\ x \in Range(v)
  /\ Below(v, x) <= index
  /\ NotAbove(v, x) >= index + 1
\* the sum of the k smallest elements of v (k >= 1)
SumOfSmallest(v, k) ==
  LET t == CHOOSE x \in Range(v) : IsOrderStatistic(v, k - 1, x)
  IN SumSeq([i \in DOMAIN v |-> IF v[i] < t THEN v[i] ELSE 0])
     + (k - Below(v, t)) * t

\* C28: for n returns sorted ascending, CVaR(5%) is the mean of the
\* k = floor(n * 0.05) smallest and 0 when k = 0 (n < 20); VaR95 and VaR99 are
\* the single sorted element at index floor(n * 0.05) and floor(n * 0.01) and
\* 0 when that index is 0 (n < 20, n < 100); so the element VaR95 reads is at
\* least every return averaged into CVaR, and CVaR <= VaR95.
C28_TailIndexRule ==
  /\ (HasStatistics /\ ~call.returns.null /\ Len(call.returns.v) > 0) =>
       LET v == call.returns.v
           k == Len(v) \div 20
       IN /\ ~result.cvar.nan
          /\ (k = 0) = (Len(v) < 20)
          /\ k = 0 => result.cvar.num = 0
          /\ k > 0 =>
               /\ result.cvar.num * k = result.cvar.den * SumOfSmallest(v, k)
               /\ \A x \in Range(v) :
                     IsOrderStatistic(v, k, x) =>
                       /\ result.cvar.num <= x * result.cvar.den
                       /\ \A y \in Range(v) :
                             IsOrderStatistic(v, k - 1, y) => y <= x
  /\ (HasAdditional /\ ~call.returns.null /\ Len(call.returns.v) > 0) =>
       LET v == call.returns.v
           IsElementAt(m, index) ==
             /\ ~m.nan
             /\ m.den = 1
             /\ IF index = 0 THEN m.num = 0
                ELSE IsOrderStatistic(v, index, m.num)
       IN /\ IsElementAt(result.var95, Len(v) \div 20)
          /\ IsElementAt(result.var99, Len(v) \div 100)
          /\ Len(v) < 20 => result.var95.num = 0
          /\ Len(v) < 100 => result.var99.num = 0

\* C28's case: 100 returns whose two smallest are -4 and -3 percent: VaR99 is
\* the second smallest, VaR95 the sixth
C28_Witness ==
  /\ HasAdditional
  /\ Len(call.returns.v) = 100
  /\ result.var99.num = -3
  /\ result.var95.num = -1
  /\ \E i \in DOMAIN call.returns.v : call.returns.v[i] = -4

====
